---------------------------- MODULE Spec2Model ----------------------------
(***************************************************************************)
(* The calculator of client/src/pages/calculator.tsx as a state machine.   *)
(*                                                                         *)
(* Text (currentValue, previousValue, the history strings) is a sequence   *)
(* of one-character strings, so that typing, formatting and parsing are    *)
(* computed and not assumed.  The four characters outside ASCII are named  *)
(* by their code points ("U+00D7" is the multiplication sign).             *)
(*                                                                         *)
(* A JavaScript number is NaN or a decimal fixed-point value: the integer  *)
(* v stands for v / 10^FracDigits.  Division, percentage and square root   *)
(* round to that precision, as binary64 rounds to 53 bits.                 *)
(*                                                                         *)
(* A handler is a function from the component's hooks before the event to  *)
(* its hooks after it, as its setState updater is in the source; the       *)
(* updates a handler queues (its own and the one addToHistory queues) are  *)
(* applied in sequence before the next event is delivered.                 *)
(***************************************************************************)
EXTENDS Integers, Sequences, FiniteSets, TLC

VARIABLES
    state,               \* the state hook, a CalculatorState
    error,               \* the error hook
    previousCalculation, \* the previousCalculation hook (display trail)
    timers,              \* setTimeout callbacks of showError not yet run
    now,                 \* the clock new Date() reads
    unhandled,           \* an exception left a handler uncaught
    script,              \* the input events of a scripted session
    pc                   \* how many events of the script were delivered

vars == <<state, error, previousCalculation, timers, now, unhandled, script,
          pc>>

---------------------------------------------------------------------------
(* Bounds of the model.                                                    *)

FracDigits == 2
MaxAbs == 40
MaxEvents == 4
MaxDigits == 3
HistoryRuns == 60

---------------------------------------------------------------------------
(* Numbers.                                                                *)

null == "null"

RECURSIVE Pow10(_)
Pow10(k) == IF k = 0 THEN 1 ELSE 10 * Pow10(k - 1)

Scale == Pow10(FracDigits)

NaN == [nan |-> TRUE, v |-> 0]
Num(v) == [nan |-> FALSE, v |-> v]

Abs(i) == IF i < 0 THEN -i ELSE i
Min(a, b) == IF a < b THEN a ELSE b

\* p / q for q > 0, rounded to the nearest integer, ties away from zero.
RoundDiv(p, q) ==
    LET m == Abs(p)
        r == (m \div q) + (IF 2 * (m % q) >= q THEN 1 ELSE 0)
    IN  IF p < 0 THEN -r ELSE r

NumAdd(a, b) == IF a.nan \/ b.nan THEN NaN ELSE Num(a.v + b.v)
NumSub(a, b) == IF a.nan \/ b.nan THEN NaN ELSE Num(a.v - b.v)
NumMul(a, b) == IF a.nan \/ b.nan THEN NaN ELSE Num(RoundDiv(a.v * b.v, Scale))
\* b is not zero.
NumDiv(a, b) ==
    IF a.nan \/ b.nan THEN NaN
    ELSE IF b.v < 0 THEN Num(RoundDiv(-(a.v * Scale), -b.v))
    ELSE Num(RoundDiv(a.v * Scale, b.v))

\* The largest r in lo..(hi - 1) with r * r <= t, by bisection.
RECURSIVE FloorSqrt(_, _, _)
FloorSqrt(t, lo, hi) ==
    IF hi - lo <= 1 THEN lo
    ELSE LET m == (lo + hi) \div 2
         IN  IF m * m <= t THEN FloorSqrt(t, m, hi) ELSE FloorSqrt(t, lo, m)

\* Math.sqrt of a number that is not negative, rounded to the nearest.
NumSqrt(a) ==
    IF a.nan THEN NaN
    ELSE LET t == a.v * Scale
             r == FloorSqrt(t, 0, Min(t, 46340) + 1)
         IN  Num(IF t - r * r > r THEN r + 1 ELSE r)

IsZero(a) == ~a.nan /\ a.v = 0
IsNegative(a) == ~a.nan /\ a.v < 0

---------------------------------------------------------------------------
(* Number.prototype.toString and parseFloat.                               *)

DigitChars == <<"0", "1", "2", "3", "4", "5", "6", "7", "8", "9">>
Digits == {DigitChars[i] : i \in 1..10}
DigitVal(c) == (CHOOSE i \in 1..10 : DigitChars[i] = c) - 1

RECURSIVE NatToString(_)
NatToString(n) ==
    IF n < 10 THEN <<DigitChars[n + 1]>>
    ELSE NatToString(n \div 10) \o <<DigitChars[(n % 10) + 1]>>

\* The k fraction digits of f (f < 10^k) without the trailing zeros.
RECURSIVE FracToString(_, _)
FracToString(f, k) ==
    IF f = 0 THEN <<>>
    ELSE <<DigitChars[(f \div Pow10(k - 1)) + 1]>>
            \o FracToString(f % Pow10(k - 1), k - 1)

toString(a) ==
    IF a.nan THEN <<"N", "a", "N">>
    ELSE LET m == Abs(a.v)
         IN  (IF a.v < 0 THEN <<"-">> ELSE <<>>)
                \o NatToString(m \div Scale)
                \o (IF m % Scale = 0 THEN <<>>
                    ELSE <<".">> \o FracToString(m % Scale, FracDigits))

\* The length of the longest prefix of s made of digits.
RECURSIVE DigitPrefix(_)
DigitPrefix(s) ==
    IF s = <<>> \/ Head(s) \notin Digits THEN 0 ELSE 1 + DigitPrefix(Tail(s))

RECURSIVE DigitsToNat(_)
DigitsToNat(s) ==
    IF s = <<>> THEN 0
    ELSE 10 * DigitsToNat(SubSeq(s, 1, Len(s) - 1)) + DigitVal(s[Len(s)])

\* The fraction digits s as a multiple of 10^-FracDigits; further digits are
\* below the precision and dropped.
FracToNat(s) ==
    LET k == Min(Len(s), FracDigits)
    IN  DigitsToNat(SubSeq(s, 1, k)) * Pow10(FracDigits - k)

\* parseFloat: the longest prefix of s that is a decimal literal (sign,
\* digits, point, digits); NaN when it holds no digit.
parseFloat(s) ==
    LET neg == s # <<>> /\ Head(s) = "-"
        body == IF neg THEN Tail(s) ELSE s
        il == DigitPrefix(body)
        rest == SubSeq(body, il + 1, Len(body))
        frac == IF rest # <<>> /\ Head(rest) = "."
                THEN SubSeq(rest, 2, 1 + DigitPrefix(Tail(rest)))
                ELSE <<>>
        mag == DigitsToNat(SubSeq(body, 1, il)) * Scale + FracToNat(frac)
    IN  IF il = 0 /\ frac = <<>> THEN NaN
        ELSE Num(IF neg THEN -mag ELSE mag)

---------------------------------------------------------------------------
(* The pure helpers of the component.                                      *)

OperationKeys == {"+", "-", "*", "/"}
AdvancedKeys == {"percentage", "square-root", "square"}
MemoryKeys == {"memory-clear", "memory-recall", "memory-add", "memory-subtract"}

DivideByZeroMessage == "Cannot divide by zero"
InvalidInputMessage == "Invalid input"

Returned(x) == [thrown |-> FALSE, value |-> x, message |-> ""]
Thrown(m) == [thrown |-> TRUE, value |-> NaN, message |-> m]

calculate(a, b, op) ==
    CASE op = "+" -> Returned(NumAdd(a, b))
      [] op = "-" -> Returned(NumSub(a, b))
      [] op = "*" -> Returned(NumMul(a, b))
      [] op = "/" -> IF IsZero(b) THEN Thrown(DivideByZeroMessage)
                     ELSE Returned(NumDiv(a, b))
      [] OTHER -> Returned(b)

\* A getOperationSymbol that shows the keys.
getOperationSymbol_Raw(op) == op

getOperationSymbol(op) ==
    CASE op = "*" -> "U+00D7"
      [] op = "/" -> "U+00F7"
      [] OTHER -> op

\* `${value} ${getOperationSymbol(op)}`
Trail(value, op) == value \o <<" ", getOperationSymbol(op)>>

---------------------------------------------------------------------------
(* The hooks and the handlers.  w is the record of the hooks before the    *)
(* event, the value of a handler the record after it.                      *)

InitialState ==
    [currentValue |-> <<"0">>,
     previousValue |-> <<>>,
     operation |-> null,
     memory |-> Num(0),
     history |-> <<>>,
     waitingForNewValue |-> FALSE]

Hooks ==
    [state |-> state, error |-> error,
     previousCalculation |-> previousCalculation, timers |-> timers,
     now |-> now, unhandled |-> unhandled]

\* A showError that sets no timeout.
showError_NoTimeout(w, message) == [w EXCEPT !.error = message]

\* showError: the message is shown and a timeout is set that hides it.
showError(w, message) ==
    [w EXCEPT !.error = message, !.timers = @ + 1]

\* An addToHistory that keeps every old item.
addToHistory_KeepsAll(w, calculation, result) ==
    [w EXCEPT
        !.state.history =
            <<[calculation |-> calculation, result |-> result,
               timestamp |-> w.now]>> \o @,
        !.now = @ + 1]

HistoryKeep == 49

\* addToHistory: the new item, then the first 49 of the old ones.
addToHistory(w, calculation, result) ==
    [w EXCEPT
        !.state.history =
            <<[calculation |-> calculation, result |-> result,
               timestamp |-> w.now]>>
                \o SubSeq(@, 1, Min(Len(@), HistoryKeep)),
        !.now = @ + 1]

\* A handleNumber that appends to the value shown while a new value is
\* awaited.
handleNumber_IgnoresWaiting(w, num) ==
    [w EXCEPT !.state.currentValue =
                    IF w.state.currentValue = <<"0">> THEN <<num>>
                    ELSE w.state.currentValue \o <<num>>,
              !.state.waitingForNewValue = FALSE]

\* A handleNumber that keeps the leading zero.
handleNumber_KeepsZero(w, num) ==
    IF w.state.waitingForNewValue
    THEN [w EXCEPT !.state.currentValue = <<num>>,
                   !.state.waitingForNewValue = FALSE]
    ELSE [w EXCEPT !.state.currentValue = w.state.currentValue \o <<num>>]

handleNumber(w, num) ==
    LET prev == w.state
    IN  IF prev.waitingForNewValue
        THEN [w EXCEPT !.state.currentValue = <<num>>,
                       !.state.waitingForNewValue = FALSE]
        ELSE [w EXCEPT !.state.currentValue =
                            IF prev.currentValue = <<"0">> THEN <<num>>
                            ELSE prev.currentValue \o <<num>>]

\* A handleOperation that never evaluates the pending operation.
handleOperation_NoChain(w, op) ==
    [w EXCEPT
        !.previousCalculation = Trail(w.state.currentValue, op),
        !.state.previousValue = w.state.currentValue,
        !.state.operation = op,
        !.state.waitingForNewValue = TRUE]

\* A handleOperation that records its evaluation in the history.
handleOperation_RecordsChain(w, op) ==
    LET prev == w.state
    IN  IF prev.operation # null /\ ~prev.waitingForNewValue
        THEN LET result == calculate(parseFloat(prev.previousValue),
                                     parseFloat(prev.currentValue),
                                     prev.operation)
             IN  IF result.thrown
                 THEN [w EXCEPT !.unhandled = TRUE]
                 ELSE [addToHistory(w,
                          prev.previousValue
                             \o <<" ", getOperationSymbol(prev.operation), " ">>
                             \o prev.currentValue,
                          toString(result.value))
                       EXCEPT
                          !.previousCalculation = Trail(prev.currentValue, op),
                          !.state.currentValue = toString(result.value),
                          !.state.previousValue = toString(result.value),
                          !.state.operation = op,
                          !.state.waitingForNewValue = TRUE]
        ELSE [w EXCEPT
                 !.previousCalculation = Trail(prev.currentValue, op),
                 !.state.previousValue = prev.currentValue,
                 !.state.operation = op,
                 !.state.waitingForNewValue = TRUE]

\* A handleOperation that evaluates the pending operation even when no new
\* value was entered.
handleOperation_AlwaysEvaluates(w, op) ==
    LET prev == w.state
    IN  IF prev.operation # null
        THEN LET result == calculate(parseFloat(prev.previousValue),
                                     parseFloat(prev.currentValue),
                                     prev.operation)
             IN  IF result.thrown
                 THEN [w EXCEPT !.unhandled = TRUE]
                 ELSE [w EXCEPT
                          !.previousCalculation = Trail(prev.currentValue, op),
                          !.state.currentValue = toString(result.value),
                          !.state.previousValue = toString(result.value),
                          !.state.operation = op,
                          !.state.waitingForNewValue = TRUE]
        ELSE [w EXCEPT
                 !.previousCalculation = Trail(prev.currentValue, op),
                 !.state.previousValue = prev.currentValue,
                 !.state.operation = op,
                 !.state.waitingForNewValue = TRUE]

handleOperation(w, op) ==
    LET prev == w.state
    IN  IF prev.operation # null /\ ~prev.waitingForNewValue
        THEN LET result == calculate(parseFloat(prev.previousValue),
                                     parseFloat(prev.currentValue),
                                     prev.operation)
             IN  IF result.thrown
                 THEN \* nothing catches the exception of calculate here
                      [w EXCEPT !.unhandled = TRUE]
                 ELSE [w EXCEPT
                          !.previousCalculation = Trail(prev.currentValue, op),
                          !.state.currentValue = toString(result.value),
                          !.state.previousValue = toString(result.value),
                          !.state.operation = op,
                          !.state.waitingForNewValue = TRUE]
        ELSE [w EXCEPT
                 !.previousCalculation = Trail(prev.currentValue, op),
                 !.state.previousValue = prev.currentValue,
                 !.state.operation = op,
                 !.state.waitingForNewValue = TRUE]

\* A handleDecimal that does not look for a decimal point.
handleDecimal_Appends(w) ==
    IF w.state.waitingForNewValue
    THEN [w EXCEPT !.state.currentValue = <<"0", ".">>,
                   !.state.waitingForNewValue = FALSE]
    ELSE [w EXCEPT !.state.currentValue = w.state.currentValue \o <<".">>]

handleDecimal(w) ==
    LET prev == w.state
    IN  IF prev.waitingForNewValue
        THEN [w EXCEPT !.state.currentValue = <<"0", ".">>,
                       !.state.waitingForNewValue = FALSE]
        ELSE IF \A i \in 1..Len(prev.currentValue) : prev.currentValue[i] # "."
        THEN [w EXCEPT !.state.currentValue = prev.currentValue \o <<".">>]
        ELSE w

\* A handleEquals whose catch drops the pending operation.
handleEquals_ConsumesOnError(w) ==
    LET prev == w.state
    IN  IF prev.operation # null /\ prev.previousValue # <<>>
        THEN LET result == calculate(parseFloat(prev.previousValue),
                                     parseFloat(prev.currentValue),
                                     prev.operation)
             IN  IF result.thrown
                 THEN [showError(w, result.message) EXCEPT
                          !.state.previousValue = <<>>,
                          !.state.operation = null]
                 ELSE [addToHistory(w,
                          prev.previousValue
                             \o <<" ", getOperationSymbol(prev.operation), " ">>
                             \o prev.currentValue,
                          toString(result.value))
                       EXCEPT
                          !.previousCalculation = <<>>,
                          !.error = null,
                          !.state.currentValue = toString(result.value),
                          !.state.previousValue = <<>>,
                          !.state.operation = null,
                          !.state.waitingForNewValue = TRUE]
        ELSE w

\* A handleEquals that evaluates whether or not an operation is pending.
handleEquals_NoGuard(w) ==
    LET prev == w.state
        result == calculate(parseFloat(prev.previousValue),
                            parseFloat(prev.currentValue),
                            prev.operation)
    IN  IF result.thrown
        THEN showError(w, result.message)
        ELSE [addToHistory(w,
                 prev.previousValue
                    \o <<" ", getOperationSymbol(prev.operation), " ">>
                    \o prev.currentValue,
                 toString(result.value))
              EXCEPT
                 !.previousCalculation = <<>>,
                 !.error = null,
                 !.state.currentValue = toString(result.value),
                 !.state.previousValue = <<>>,
                 !.state.operation = null,
                 !.state.waitingForNewValue = TRUE]

handleEquals(w) ==
    LET prev == w.state
    IN  IF prev.operation # null /\ prev.previousValue # <<>>
        THEN LET result == calculate(parseFloat(prev.previousValue),
                                     parseFloat(prev.currentValue),
                                     prev.operation)
             IN  IF result.thrown
                 THEN showError(w, result.message)
                 ELSE [addToHistory(w,
                          prev.previousValue
                             \o <<" ", getOperationSymbol(prev.operation), " ">>
                             \o prev.currentValue,
                          toString(result.value))
                       EXCEPT
                          !.previousCalculation = <<>>,
                          !.error = null,
                          !.state.currentValue = toString(result.value),
                          !.state.previousValue = <<>>,
                          !.state.operation = null,
                          !.state.waitingForNewValue = TRUE]
        ELSE w

\* A handleClear that resets the whole state.
handleClear_ResetsAll(w) ==
    [w EXCEPT
        !.state = [currentValue |-> <<"0">>, previousValue |-> <<>>,
                   operation |-> null, memory |-> Num(0), history |-> <<>>,
                   waitingForNewValue |-> FALSE],
        !.previousCalculation = <<>>,
        !.error = null]

\* A handleClear that leaves the pending operator.
handleClear_KeepsOperation(w) ==
    [w EXCEPT
        !.state.currentValue = <<"0">>,
        !.state.previousValue = <<>>,
        !.state.waitingForNewValue = FALSE,
        !.previousCalculation = <<>>,
        !.error = null]

handleClear(w) ==
    [w EXCEPT
        !.state.currentValue = <<"0">>,
        !.state.previousValue = <<>>,
        !.state.operation = null,
        !.state.waitingForNewValue = FALSE,
        !.previousCalculation = <<>>,
        !.error = null]

\* A handleAdvancedOperation that drops the pending operation.
handleAdvancedOperation_DropsPending(w, op) ==
    LET prev == w.state
        current == parseFloat(prev.currentValue)
        done(result, calculationDisplay) ==
            [addToHistory(w, calculationDisplay, toString(result))
             EXCEPT !.error = null,
                    !.state.currentValue = toString(result),
                    !.state.previousValue = <<>>,
                    !.state.operation = null,
                    !.state.waitingForNewValue = TRUE]
    IN  CASE op = "percentage" ->
                done(NumDiv(current, Num(100 * Scale)),
                     toString(current) \o <<"%">>)
          [] op = "square-root" ->
                IF IsNegative(current)
                THEN showError(w, InvalidInputMessage)
                ELSE done(NumSqrt(current), <<"U+221A">> \o toString(current))
          [] op = "square" ->
                done(NumMul(current, current),
                     toString(current) \o <<"U+00B2">>)
          [] OTHER -> w

handleAdvancedOperation(w, op) ==
    LET prev == w.state
        current == parseFloat(prev.currentValue)
        done(result, calculationDisplay) ==
            [addToHistory(w, calculationDisplay, toString(result))
             EXCEPT !.error = null,
                    !.state.currentValue = toString(result),
                    !.state.waitingForNewValue = TRUE]
    IN  CASE op = "percentage" ->
                done(NumDiv(current, Num(100 * Scale)),
                     toString(current) \o <<"%">>)
          [] op = "square-root" ->
                IF IsNegative(current)
                THEN showError(w, InvalidInputMessage)
                ELSE done(NumSqrt(current), <<"U+221A">> \o toString(current))
          [] op = "square" ->
                done(NumMul(current, current),
                     toString(current) \o <<"U+00B2">>)
          [] OTHER -> w

\* A handleMemoryOperation whose memory-subtract adds.
handleMemoryOperation_SubtractAdds(w, op) ==
    LET prev == w.state
        current == parseFloat(prev.currentValue)
    IN  CASE op = "memory-clear" -> [w EXCEPT !.state.memory = Num(0)]
          [] op = "memory-recall" ->
                [w EXCEPT !.state.currentValue = toString(prev.memory),
                          !.state.waitingForNewValue = TRUE]
          [] op = "memory-add" ->
                [w EXCEPT !.state.memory = NumAdd(prev.memory, current)]
          [] op = "memory-subtract" ->
                [w EXCEPT !.state.memory = NumAdd(prev.memory, current)]
          [] OTHER -> w

\* A handleMemoryOperation whose memory-recall empties the memory.
handleMemoryOperation_RecallClears(w, op) ==
    LET prev == w.state
        current == parseFloat(prev.currentValue)
    IN  CASE op = "memory-clear" -> [w EXCEPT !.state.memory = Num(0)]
          [] op = "memory-recall" ->
                [w EXCEPT !.state.currentValue = toString(prev.memory),
                          !.state.memory = Num(0),
                          !.state.waitingForNewValue = TRUE]
          [] op = "memory-add" ->
                [w EXCEPT !.state.memory = NumAdd(prev.memory, current)]
          [] op = "memory-subtract" ->
                [w EXCEPT !.state.memory = NumSub(prev.memory, current)]
          [] OTHER -> w

\* A handleMemoryOperation whose memory-recall leaves waitingForNewValue.
handleMemoryOperation_RecallKeepsTyping(w, op) ==
    LET prev == w.state
        current == parseFloat(prev.currentValue)
    IN  CASE op = "memory-clear" -> [w EXCEPT !.state.memory = Num(0)]
          [] op = "memory-recall" ->
                [w EXCEPT !.state.currentValue = toString(prev.memory)]
          [] op = "memory-add" ->
                [w EXCEPT !.state.memory = NumAdd(prev.memory, current)]
          [] op = "memory-subtract" ->
                [w EXCEPT !.state.memory = NumSub(prev.memory, current)]
          [] OTHER -> w

handleMemoryOperation(w, op) ==
    LET prev == w.state
        current == parseFloat(prev.currentValue)
    IN  CASE op = "memory-clear" -> [w EXCEPT !.state.memory = Num(0)]
          [] op = "memory-recall" ->
                [w EXCEPT !.state.currentValue = toString(prev.memory),
                          !.state.waitingForNewValue = TRUE]
          [] op = "memory-add" ->
                [w EXCEPT !.state.memory = NumAdd(prev.memory, current)]
          [] op = "memory-subtract" ->
                [w EXCEPT !.state.memory = NumSub(prev.memory, current)]
          [] OTHER -> w

\* The onClick of the history panel's i-th entry, when there is one.
selectHistoryEntry(w, i) ==
    IF i \in 1..Len(w.state.history)
    THEN [w EXCEPT !.state.currentValue = w.state.history[i].result,
                   !.state.waitingForNewValue = TRUE]
    ELSE w

\* A clearHistory that starts the state over.
clearHistory_ResetsState(w) == [w EXCEPT !.state = InitialState]

clearHistory(w) == [w EXCEPT !.state.history = <<>>]

\* The callback of showError's setTimeout.
timeoutCallback(w) == [w EXCEPT !.error = null, !.timers = @ - 1]

---------------------------------------------------------------------------
(* Input events.  An event is named by its key or by the argument its      *)
(* button passes: a digit, an operator, ".", "=", "C", an advanced or a    *)
(* memory operation, "item1".. (a click on that entry of the history       *)
(* panel) and "clearHistory".                                              *)

ItemIndex == [item1 |-> 1, item2 |-> 2]
ItemKeys == DOMAIN ItemIndex

\* The component handles events until an exception unmounts it.
Deliver(w, e) ==
    IF w.unhandled THEN w
    ELSE CASE e \in Digits -> handleNumber(w, e)
           [] e \in OperationKeys -> handleOperation(w, e)
           [] e = "." -> handleDecimal(w)
           [] e = "=" -> handleEquals(w)
           [] e = "C" -> handleClear(w)
           [] e \in AdvancedKeys -> handleAdvancedOperation(w, e)
           [] e \in MemoryKeys -> handleMemoryOperation(w, e)
           [] e \in ItemKeys -> selectHistoryEntry(w, ItemIndex[e])
           [] e = "clearHistory" -> clearHistory(w)

\* The hooks become w.
Become(w) ==
    /\ state' = w.state
    /\ error' = w.error
    /\ previousCalculation' = w.previousCalculation
    /\ timers' = w.timers
    /\ now' = w.now
    /\ unhandled' = w.unhandled

Init ==
    /\ state = InitialState
    /\ error = null
    /\ previousCalculation = <<>>
    /\ timers = 0
    /\ now = 0
    /\ unhandled = FALSE
    /\ script = <<>>
    /\ pc = 0

---------------------------------------------------------------------------
(* The free session: any event at any time.  The part of it explored has   *)
(* at most MaxEvents input events and numbers of magnitude at most MaxAbs. *)

DigitKeys == {"0", "2"}

InRange(a) == a.nan \/ Abs(a.v) <= MaxAbs * Scale

Bounded(w) ==
    /\ InRange(parseFloat(w.state.currentValue))
    /\ InRange(w.state.memory)

\* The handler's result becomes the hooks; pc counts the events delivered.
Session(w) ==
    /\ Bounded(w)
    /\ Become(w)
    /\ pc' = pc + 1
    /\ UNCHANGED script

Listening == ~unhandled /\ pc < MaxEvents

Number ==
    /\ Listening
    /\ \E num \in DigitKeys : Session(handleNumber(Hooks, num))

Operation ==
    /\ Listening
    /\ \E op \in OperationKeys : Session(handleOperation(Hooks, op))

Decimal ==
    /\ Listening
    /\ Session(handleDecimal(Hooks))

Equals ==
    /\ Listening
    /\ Session(handleEquals(Hooks))

Clear ==
    /\ Listening
    /\ Session(handleClear(Hooks))

AdvancedOperation ==
    /\ Listening
    /\ \E op \in AdvancedKeys : Session(handleAdvancedOperation(Hooks, op))

MemoryOperation ==
    /\ Listening
    /\ \E op \in MemoryKeys : Session(handleMemoryOperation(Hooks, op))

HistoryEntry ==
    /\ Listening
    /\ \E i \in 1..Len(state.history) : Session(selectHistoryEntry(Hooks, i))

ClearHistory ==
    /\ Listening
    /\ Session(clearHistory(Hooks))

Timeout ==
    /\ ~unhandled
    /\ timers > 0
    /\ Become(timeoutCallback(Hooks))
    /\ UNCHANGED <<script, pc>>

Next ==
    \/ Number
    \/ Operation
    \/ Decimal
    \/ Equals
    \/ Clear
    \/ AdvancedOperation
    \/ MemoryOperation
    \/ HistoryEntry
    \/ ClearHistory
    \/ Timeout

Spec == Init /\ [][Next]_vars

---------------------------------------------------------------------------
(* Scripted sessions: the events of one script, delivered in order from    *)
(* the initial state.  A script is one of the event sequences the          *)
(* properties of the design speak of, after a session that left something  *)
(* behind (a pending operator, an error, a history entry, a memory).       *)

Script(family, keys, args) == [family |-> family, keys |-> keys, args |-> args]

Prefixes ==
    {<<>>,
     <<"7", "memory-add", "*", "3">>,
     <<"9", "square-root", "-", "square-root", "/", "0", "=">>}

\* The operands of the chained calculations, as typed.
Operands == {<<"5">>, <<"3">>, <<"2">>, <<"0">>, <<"1", "2">>, <<"0", ".", "5">>}

ChainScripts ==
    {Script("chain",
            p \o <<"C">> \o a \o <<op1>> \o b \o <<op2>> \o c \o <<"=">>,
            <<a, <<op1>>, b, <<op2>>, c>>) :
        p \in Prefixes, a \in Operands, op1 \in OperationKeys,
        b \in Operands, op2 \in OperationKeys, c \in Operands}

\* The sequences of at most n of the digits 0..3.
RECURSIVE DigitSeqs(_)
DigitSeqs(n) ==
    IF n = 0 THEN {<<>>}
    ELSE DigitSeqs(n - 1)
            \cup {ds \o <<d>> : ds \in DigitSeqs(n - 1), d \in {"0", "1", "2", "3"}}

DigitScripts ==
    {Script("digits", p \o <<"C">> \o ds, <<ds>>) :
        p \in Prefixes, ds \in DigitSeqs(MaxDigits)}

DivideByZeroScript == Script("divide", <<"8", "/", "0", "=">>, <<>>)

\* n times the keys.
RECURSIVE Repeat(_, _)
Repeat(keys, n) == IF n = 0 THEN <<>> ELSE keys \o Repeat(keys, n - 1)

HistoryScripts ==
    {Script("history", p \o Repeat(run, HistoryRuns), <<run>>) :
        p \in Prefixes,
        run \in {<<"2", "+", "5", "=">>, <<"5", "square">>,
                 <<"percentage", "9", "square-root">>}}

Scripts ==
    ChainScripts \cup DigitScripts \cup {DivideByZeroScript} \cup HistoryScripts

InitScript ==
    /\ state = InitialState
    /\ error = null
    /\ previousCalculation = <<>>
    /\ timers = 0
    /\ now = 0
    /\ unhandled = FALSE
    /\ script \in Scripts
    /\ pc = 0

Play ==
    /\ pc < Len(script.keys)
    /\ Become(Deliver(Hooks, script.keys[pc + 1]))
    /\ pc' = pc + 1
    /\ UNCHANGED script

SpecScript == InitScript /\ [][Play]_vars

ScriptDone(family) == script.family = family /\ pc = Len(script.keys)

---------------------------------------------------------------------------
(* The properties.                                                         *)

HasPoint(s) == \E i \in 1..Len(s) : s[i] = "."
Points(s) == Cardinality({i \in 1..Len(s) : s[i] = "."})

\* C1: no sequence of input events ends in an unhandled failure; a division
\* by zero is always surfaced as a transient error.
C1_NoUnhandledFailure == ~unhandled

\* C2, as claimed: 8, /, 0, = from the initial state ends with currentValue
\* "8", operation Divide, previousValue "8" and exactly one error raised.
C2_AsClaimed ==
    ScriptDone("divide") =>
        /\ state.currentValue = <<"8">>
        /\ state.operation = "/"
        /\ state.previousValue = <<"8">>
        /\ error = DivideByZeroMessage
        /\ timers = 1

\* C2, amended: 8, /, 0, = from the initial state ends with currentValue "0"
\* (the second operand, as typed), operation Divide, previousValue "8" and
\* exactly one error raised: the message shown, one timeout set.
C2_DivideByZeroSequence ==
    ScriptDone("divide") =>
        /\ state.currentValue = <<"0">>
        /\ state.operation = "/"
        /\ state.previousValue = <<"8">>
        /\ state.waitingForNewValue = FALSE
        /\ error = DivideByZeroMessage
        /\ timers = 1
        /\ ~unhandled

C2_Witness ==
    /\ ScriptDone("divide")
    /\ error = DivideByZeroMessage
    /\ state.operation = "/"

\* C3: in every reachable state with Divide pending and a currentValue that
\* parses to zero, equals leaves the whole CalculatorState unchanged and
\* raises the error "Cannot divide by zero" (the message shown, one more
\* timeout set).
C3_DivideByZeroUnchanged ==
    (state.operation = "/" /\ IsZero(parseFloat(state.currentValue))) =>
        LET w == handleEquals(Hooks)
        IN  /\ w.state = state
            /\ w.error = DivideByZeroMessage
            /\ w.timers = timers + 1
            /\ w.unhandled = unhandled

\* Equals has failed: Divide is still pending with a zero second operand,
\* the message is shown and nothing was recorded.
C3_Witness ==
    /\ state.operation = "/"
    /\ IsZero(parseFloat(state.currentValue))
    /\ state.previousValue = <<"2">>
    /\ error = DivideByZeroMessage
    /\ timers = 1
    /\ state.history = <<>>

\* C4: clear, a, op1, b, op2, c, = without a division by zero ends with
\* currentValue the text of apply(apply(a, b, op1), c, op2): operators fold
\* left to right, with no precedence.
C4_LeftToRight ==
    ScriptDone("chain") =>
        LET a == parseFloat(script.args[1])
            op1 == script.args[2][1]
            b == parseFloat(script.args[3])
            op2 == script.args[4][1]
            c == parseFloat(script.args[5])
            first == calculate(a, b, op1)
            second == calculate(first.value, c, op2)
        IN  (~first.thrown /\ ~second.thrown) =>
                /\ state.currentValue = toString(second.value)
                /\ ~unhandled
                /\ error = null

\* 5, +, 3, *, 2, = has been played and shows 16, not 11.
C4_Witness ==
    /\ ScriptDone("chain")
    /\ script.args = <<<<"5">>, <<"+">>, <<"3">>, <<"*">>, <<"2">>>>
    /\ state.currentValue = <<"1", "6">>
    /\ state.history # <<>>

\* The digits ds without their leading zeros; "0" when nothing is left.
RECURSIVE WithoutLeadingZeros(_)
WithoutLeadingZeros(ds) ==
    IF ds = <<>> THEN <<"0">>
    ELSE IF Head(ds) = "0" THEN WithoutLeadingZeros(Tail(ds))
    ELSE ds

\* C5: after clear and a sequence of digits, currentValue is the digits
\* typed with the leading zeros suppressed ("0" if only zeros were typed).
C5_DigitsAsTyped ==
    ScriptDone("digits") =>
        state.currentValue = WithoutLeadingZeros(script.args[1])

\* 1, 2, 3 was typed after a clear that had something to reset.
C5_Witness ==
    /\ ScriptDone("digits")
    /\ script.args[1] = <<"1", "2", "3">>
    /\ state.currentValue = <<"1", "2", "3">>
    /\ state.history # <<>>

DeliveredSoFar == {script.keys[i] : i \in 1..pc}

\* C6: history never holds more than 50 entries, and as long as there was
\* no clearHistory it holds the 50 most recent of the entries created, the
\* most recent first (now counts the entries created; an entry's timestamp
\* is the count when it was created).
C6_HistoryBound ==
    /\ Len(state.history) <= 50
    /\ "clearHistory" \notin DeliveredSoFar =>
          /\ Len(state.history) = Min(now, 50)
          /\ \A i \in 1..Len(state.history) :
                state.history[i].timestamp = now - i

\* More than 50 entries were created and the oldest were evicted.
C6_Witness ==
    /\ ScriptDone("history")
    /\ now >= 60
    /\ Len(state.history) = 50
    /\ state.history[50].timestamp = now - 50

\* C7: in every reachable state whose currentValue parses to a negative
\* number, the square root leaves the whole CalculatorState unchanged and
\* raises exactly one error, "Invalid input".
C7_SquareRootOfNegative ==
    IsNegative(parseFloat(state.currentValue)) =>
        LET w == handleAdvancedOperation(Hooks, "square-root")
        IN  /\ w.state = state
            /\ w.error = InvalidInputMessage
            /\ w.timers = timers + 1
            /\ w.now = now
            /\ w.unhandled = unhandled

\* The square root of a negative currentValue has failed.
C7_Witness ==
    /\ IsNegative(parseFloat(state.currentValue))
    /\ error = InvalidInputMessage
    /\ timers = 1

\* C8: in every reachable state, with memory m and currentValue parsing to
\* x, memory-add leaves memory m + x and memory-subtract m - x, and a recall
\* after either shows the text of the memory; from memory 0, adding "5",
\* subtracting "2" and recalling shows "3".
C8_MemoryRoundTrip ==
    LET m == state.memory
        x == parseFloat(state.currentValue)
        added == handleMemoryOperation(Hooks, "memory-add")
        subtracted == handleMemoryOperation(Hooks, "memory-subtract")
        typed(w, key) == handleNumber(handleClear(w), key)
        five == handleMemoryOperation(
                    typed(handleMemoryOperation(Hooks, "memory-clear"), "5"),
                    "memory-add")
        two == handleMemoryOperation(typed(five, "2"), "memory-subtract")
    IN  /\ added.state.memory = NumAdd(m, x)
        /\ subtracted.state.memory = NumSub(m, x)
        /\ handleMemoryOperation(added, "memory-recall").state.currentValue
              = toString(NumAdd(m, x))
        /\ handleMemoryOperation(subtracted, "memory-recall").state.currentValue
              = toString(NumSub(m, x))
        /\ handleMemoryOperation(Hooks, "memory-recall").state.currentValue
              = toString(m)
        /\ five.state.memory = Num(5 * Scale)
        /\ two.state.memory = Num(3 * Scale)
        /\ handleMemoryOperation(two, "memory-recall").state.currentValue
              = <<"3">>

\* 2 was added to the memory, 22 subtracted and the memory recalled.
C8_Witness ==
    /\ state.memory = Num(-20 * Scale)
    /\ state.currentValue = <<"-", "2", "0">>
    /\ state.waitingForNewValue
    /\ state.history = <<>>

\* C9: currentValue never holds more than one decimal point, and the
\* decimal key changes nothing when currentValue holds one already and no
\* new value is awaited.
C9_OneDecimalPoint ==
    /\ Points(state.currentValue) <= 1
    /\ (HasPoint(state.currentValue) /\ ~state.waitingForNewValue) =>
          handleDecimal(Hooks) = Hooks

\* A decimal point was typed.
C9_Witness ==
    /\ HasPoint(state.currentValue)
    /\ ~state.waitingForNewValue
    /\ Len(state.currentValue) > 2

\* C10: from every reachable state clear leaves currentValue "0",
\* previousValue "", no operation, waitingForNewValue false, and memory and
\* history as they were.
C10_Clear ==
    LET w == handleClear(Hooks)
    IN  /\ w.state.currentValue = <<"0">>
        /\ w.state.previousValue = <<>>
        /\ w.state.operation = null
        /\ w.state.waitingForNewValue = FALSE
        /\ w.state.memory = state.memory
        /\ w.state.history = state.history

\* Clear has acted on a state with a memory and a history.
C10_Witness ==
    /\ state.currentValue = <<"0">>
    /\ state.previousValue = <<>>
    /\ state.operation = null
    /\ ~state.waitingForNewValue
    /\ state.memory # Num(0)
    /\ state.history # <<>>
    /\ previousCalculation = <<>>

\* C11: from every reachable state clearHistory empties the history and
\* leaves memory, currentValue, previousValue, operation and
\* waitingForNewValue as they were.
C11_ClearHistory ==
    LET w == clearHistory(Hooks)
    IN  /\ w.state.history = <<>>
        /\ w.state.memory = state.memory
        /\ w.state.currentValue = state.currentValue
        /\ w.state.previousValue = state.previousValue
        /\ w.state.operation = state.operation
        /\ w.state.waitingForNewValue = state.waitingForNewValue

\* The history was cleared after an entry was created, with a memory and a
\* result shown.
C11_Witness ==
    /\ state.history = <<>>
    /\ now > 0
    /\ state.memory # Num(0)
    /\ state.currentValue # <<"0">>
    /\ state.waitingForNewValue

\* C12: an error raised while the timeout of an earlier error is pending is
\* not cleared by that timeout.  With two or more timeouts pending and an
\* error shown, the error is the one raised last and the callback that runs
\* next is an earlier one: it leaves the error.
C12_EarlierTimeoutKeepsError ==
    (timers >= 2 /\ error # null) => timeoutCallback(Hooks).error = error

\* An operator is pending and no digit was typed since waitingForNewValue
\* was set.
OperatorAwaitsValue == state.operation # null /\ state.waitingForNewValue

\* C13 as stated: with an operator pending and waitingForNewValue true, an
\* operator key only replaces the operator: operation becomes op and
\* currentValue and previousValue stay.
C13_AsClaimed ==
    OperatorAwaitsValue =>
        \A op \in OperationKeys :
            LET w == handleOperation(Hooks, op)
            IN  /\ w.state.operation = op
                /\ w.state.currentValue = state.currentValue
                /\ w.state.previousValue = state.previousValue

\* C13: with an operator pending and waitingForNewValue true, an operator key
\* evaluates nothing: operation becomes op, currentValue stays, and
\* previousValue becomes currentValue, so the left operand stays exactly when
\* it was the value shown; nothing is recorded and nothing fails.
C13_ReplacesOperator ==
    OperatorAwaitsValue =>
        \A op \in OperationKeys :
            LET w == handleOperation(Hooks, op)
            IN  /\ w.state.operation = op
                /\ w.state.currentValue = state.currentValue
                /\ w.state.previousValue = state.currentValue
                /\ w.state.waitingForNewValue
                /\ w.state.history = state.history
                /\ w.state.memory = state.memory
                /\ w.error = error
                /\ w.unhandled = unhandled

\* An operator is pending, a new value is awaited, and the value shown is a
\* recalled or computed one, no longer the left operand.
C13_Witness ==
    /\ OperatorAwaitsValue
    /\ state.previousValue # state.currentValue
    /\ ~unhandled

\* The pending evaluation of an operator key divides by zero.
OperationThrows ==
    /\ state.operation = "/"
    /\ ~state.waitingForNewValue
    /\ IsZero(parseFloat(state.currentValue))

\* The evaluation of an equals key returns a result.
EqualsSucceeds ==
    /\ state.operation # null
    /\ state.previousValue # <<>>
    /\ ~(state.operation = "/" /\ IsZero(parseFloat(state.currentValue)))

\* C14 as stated: after every operator key, every equals and every memory
\* recall, waitingForNewValue is true.
C14_AsClaimed ==
    /\ \A op \in OperationKeys :
           handleOperation(Hooks, op).state.waitingForNewValue
    /\ handleEquals(Hooks).state.waitingForNewValue
    /\ handleMemoryOperation(Hooks, "memory-recall").state.waitingForNewValue

\* C14: waitingForNewValue is true after every memory recall, after every
\* equals that returns a result and after every operator key whose pending
\* evaluation does not divide by zero; an equals that does nothing or fails
\* leaves it as it was, and an operator key whose evaluation divides by zero
\* throws and leaves it false.
C14_WaitingAfter ==
    /\ \A op \in OperationKeys :
           LET w == handleOperation(Hooks, op)
           IN  IF OperationThrows
               THEN w.unhandled /\ ~w.state.waitingForNewValue
               ELSE w.state.waitingForNewValue /\ w.unhandled = unhandled
    /\ handleEquals(Hooks).state.waitingForNewValue =
           (EqualsSucceeds \/ state.waitingForNewValue)
    /\ handleMemoryOperation(Hooks, "memory-recall").state.waitingForNewValue

\* A value was typed, recalled from a nonzero memory, and an equals then did
\* nothing: a new value is awaited and no operation is pending.
C14_Witness ==
    /\ state.waitingForNewValue
    /\ state.memory # Num(0)
    /\ state.currentValue = toString(state.memory)
    /\ state.operation = null
    /\ state.history = <<>>
    /\ pc = MaxEvents

\* The history after is the history before with one entry put in front, the
\* oldest entry giving way when the history is full.
PrependsOne(after, before) ==
    /\ Len(after) = Min(Len(before) + 1, HistoryKeep + 1)
    /\ \A i \in 2..Len(after) : after[i] = before[i - 1]

\* The symbols shown for the four operators.
ShownSymbol(op) ==
    CASE op = "+" -> "+"
      [] op = "-" -> "-"
      [] op = "*" -> "U+00D7"
      [] op = "/" -> "U+00F7"

\* The value of a op b.
ValueOf(a, b, op) ==
    CASE op = "+" -> NumAdd(a, b)
      [] op = "-" -> NumSub(a, b)
      [] op = "*" -> NumMul(a, b)
      [] op = "/" -> NumDiv(a, b)

\* C15: an equals with an operator pending and no division by zero puts one
\* entry in front of the history, its calculation "<previousValue> <symbol>
\* <currentValue>" and its result the computed value, clears the error, sets
\* currentValue to the result, previousValue to "", operation to none and
\* waitingForNewValue to true, and leaves memory.  The operands are those of
\* at most MaxAbs, whose results the numbers of the model hold.
C15_SuccessfulEquals ==
    (/\ EqualsSucceeds
     /\ InRange(parseFloat(state.previousValue))
     /\ InRange(parseFloat(state.currentValue)))
    =>
        LET w == handleEquals(Hooks)
            result == toString(ValueOf(parseFloat(state.previousValue),
                                       parseFloat(state.currentValue),
                                       state.operation))
        IN  /\ PrependsOne(w.state.history, state.history)
            /\ w.state.history[1].calculation =
                   state.previousValue
                      \o <<" ", ShownSymbol(state.operation), " ">>
                      \o state.currentValue
            /\ w.state.history[1].result = result
            /\ w.error = null
            /\ w.state.currentValue = result
            /\ w.state.previousValue = <<>>
            /\ w.state.operation = null
            /\ w.state.waitingForNewValue
            /\ w.state.memory = state.memory

\* An equals has put 2 + 5 with its result 7 in front of a full history.
C15_Witness ==
    /\ Len(state.history) = HistoryKeep + 1
    /\ state.history[1].calculation = <<"2", " ", "+", " ", "5">>
    /\ state.history[1].result = <<"7">>
    /\ state.currentValue = <<"7">>
    /\ state.previousValue = <<>>
    /\ state.operation = null
    /\ state.waitingForNewValue
    /\ error = null

\* C16: with no operator pending an equals changes nothing, the history,
\* waitingForNewValue and the error included; so an equals that follows a
\* successful equals changes nothing.
C16_EqualsWithoutOperator ==
    /\ state.operation = null => handleEquals(Hooks) = Hooks
    /\ EqualsSucceeds =>
           handleEquals(handleEquals(Hooks)) = handleEquals(Hooks)

\* Equals keys have left one result in the history and no operation pending
\* at the end of a session.
C16_Witness ==
    /\ state.operation = null
    /\ state.previousValue = <<>>
    /\ Len(state.history) = 1
    /\ state.history[1].result = state.currentValue
    /\ state.history[1].calculation[Len(state.history[1].calculation) - 1]
           = " "
    /\ state.waitingForNewValue
    /\ previousCalculation = <<>>
    /\ pc = MaxEvents

\* C17: percentage, square, and square-root of a value that is not negative,
\* set currentValue to the result and waitingForNewValue to true, put one
\* entry with the result in front of the history, and leave previousValue,
\* operation and memory, so that a pending operation stays pending.
C17_SuccessfulAdvancedOperation ==
    \A op \in AdvancedKeys :
        LET current == parseFloat(state.currentValue)
            result ==
                CASE op = "percentage" -> NumDiv(current, Num(100 * Scale))
                  [] op = "square" -> NumMul(current, current)
                  [] op = "square-root" -> NumSqrt(current)
            w == handleAdvancedOperation(Hooks, op)
        IN  (~current.nan /\ (op = "square-root" => current.v >= 0)) =>
                /\ w.state.currentValue = toString(result)
                /\ w.state.waitingForNewValue
                /\ PrependsOne(w.state.history, state.history)
                /\ w.state.history[1].result = toString(result)
                /\ w.state.previousValue = state.previousValue
                /\ w.state.operation = state.operation
                /\ w.state.memory = state.memory

\* A square root was taken of the right operand of a pending operation, which
\* is still pending.
C17_Witness ==
    /\ state.operation # null
    /\ state.previousValue # <<>>
    /\ state.waitingForNewValue
    /\ state.history # <<>>
    /\ state.history[1].calculation[1] = "U+221A"
    /\ state.history[1].result = state.currentValue
    /\ state.previousValue # state.currentValue

\* C18: no memory operation changes previousValue, operation or history;
\* memory-clear, memory-add and memory-subtract leave currentValue and
\* waitingForNewValue too, and memory-recall leaves memory.
C18_MemoryOperationFrame ==
    \A op \in MemoryKeys :
        LET w == handleMemoryOperation(Hooks, op)
        IN  /\ w.state.previousValue = state.previousValue
            /\ w.state.operation = state.operation
            /\ w.state.history = state.history
            /\ op # "memory-recall" =>
                   /\ w.state.currentValue = state.currentValue
                   /\ w.state.waitingForNewValue = state.waitingForNewValue
            /\ op = "memory-recall" => w.state.memory = state.memory

\* The right operand of a pending operation was typed and added to the
\* memory, with an entry in the history.
C18_Witness ==
    /\ state.memory # Num(0)
    /\ state.memory = parseFloat(state.currentValue)
    /\ state.operation # null
    /\ ~state.waitingForNewValue
    /\ state.history # <<>>

\* The number of digits of s after its decimal point.
FractionLen(s) ==
    IF HasPoint(s) THEN Len(s) - (CHOOSE i \in 1..Len(s) : s[i] = ".") ELSE 0

SameHistoryAndMemory(w) ==
    w.state.history = state.history /\ w.state.memory = state.memory

\* The advanced operation op returns a result.
AdvancedSucceeds(op) ==
    ~(op = "square-root" /\ IsNegative(parseFloat(state.currentValue)))

\* What C20 says of the events other than the memory operations: an equals
\* and an advanced operation that succeed put one entry in front of the
\* history, clearHistory empties it, every other event leaves it, and all of
\* them leave memory.
HistoryAndMemoryOfOtherEvents ==
    /\ \A d \in Digits : SameHistoryAndMemory(handleNumber(Hooks, d))
    /\ \A op \in OperationKeys :
           SameHistoryAndMemory(handleOperation(Hooks, op))
    /\ SameHistoryAndMemory(handleDecimal(Hooks))
    /\ SameHistoryAndMemory(handleClear(Hooks))
    /\ \A i \in 1..(Len(state.history) + 1) :
           SameHistoryAndMemory(selectHistoryEntry(Hooks, i))
    /\ SameHistoryAndMemory(timeoutCallback(Hooks))
    /\ LET w == handleEquals(Hooks)
       IN  /\ w.state.memory = state.memory
           /\ IF EqualsSucceeds
              THEN PrependsOne(w.state.history, state.history)
              ELSE w.state.history = state.history
    /\ \A op \in AdvancedKeys :
           LET w == handleAdvancedOperation(Hooks, op)
           IN  /\ w.state.memory = state.memory
               /\ IF AdvancedSucceeds(op)
                  THEN PrependsOne(w.state.history, state.history)
                  ELSE w.state.history = state.history
    /\ LET w == clearHistory(Hooks)
       IN  w.state.history = <<>> /\ w.state.memory = state.memory

\* C20 as stated: the history changes only through a successful equals, a
\* successful advanced operation and clearHistory, and every other event, a
\* memory operation included, leaves history and memory.
C20_AsClaimed ==
    /\ HistoryAndMemoryOfOtherEvents
    /\ \A op \in MemoryKeys :
           SameHistoryAndMemory(handleMemoryOperation(Hooks, op))

\* C20: the history changes only through a successful equals, a successful
\* advanced operation (each puts one entry in front) and clearHistory; every
\* other event, an operator key that evaluates and every failed operation
\* included, leaves the history, and every event other than memory-clear,
\* memory-add and memory-subtract leaves memory.
C20_HistoryAndMemoryFrame ==
    /\ HistoryAndMemoryOfOtherEvents
    /\ \A op \in MemoryKeys :
           LET w == handleMemoryOperation(Hooks, op)
           IN  /\ w.state.history = state.history
               /\ op = "memory-recall" => w.state.memory = state.memory

\* An operator key has evaluated 2 + 2 and the history is empty.
C20_Witness ==
    /\ state.history = <<>>
    /\ now = 0
    /\ previousCalculation = <<"2", " ", "U+00D7">>
    /\ state.previousValue = <<"4">>
    /\ state.currentValue = <<"4">>
    /\ state.operation = "*"
    /\ state.waitingForNewValue

\* C21: in every reachable state operation is set exactly when
\* previousValue is not empty, and currentValue is not empty; so the
\* evaluating branch of an operator key, taken with an operator pending and
\* waitingForNewValue false, always has a left operand.
C21_OperationIffPreviousValue ==
    /\ state.operation # null <=> state.previousValue # <<>>
    /\ state.currentValue # <<>>
    /\ (state.operation # null /\ ~state.waitingForNewValue) =>
           ~parseFloat(state.previousValue).nan

\* At the end of a session an operator is pending with its right operand
\* typed, so that the next operator key evaluates.
C21_Witness ==
    /\ state.operation # null
    /\ ~state.waitingForNewValue
    /\ state.previousValue # <<>>
    /\ state.currentValue # state.previousValue
    /\ previousCalculation = Trail(state.previousValue, state.operation)
    /\ pc = MaxEvents

\* C22: in every reachable state the display trail is empty exactly when no
\* operator is pending, and with an operator pending it is "<previousValue>
\* <symbol of operation>", after an operator key that evaluated included.
C22_TrailOfPendingOperation ==
    /\ previousCalculation = <<>> <=> state.operation = null
    /\ state.operation # null =>
           previousCalculation =
               state.previousValue \o <<" ", ShownSymbol(state.operation)>>

===========================================================================
